---- MODULE Spec2Model ----
(***************************************************************************)
(* The per-group ledger of src/bot.js as a state machine: the wallet, the  *)
(* transaction log, the daily and monthly spend aggregates and the         *)
(* exchange rate of one group, driven by the intent handlers               *)
(* (executeAction and the handle*Action functions), the admin /approve     *)
(* command and the reset timers of startBot; and the confirmation          *)
(* sub-protocol of the message and callback_query handlers, which stores   *)
(* a flagged intent and executes it when its requester confirms.           *)
(*                                                                         *)
(* Every handler mutates the ledger synchronously and only then awaits     *)
(* saveAllData, so one handler run is one action.  Amounts are JavaScript  *)
(* numbers in the source; the model takes them from the integers, so       *)
(* sums are exact.                                                         *)
(***************************************************************************)
EXTENDS Integers, Sequences, FiniteSets, Bags

VARIABLES
    memory,         \* groupData.memory: wallet, dailySpent, monthlySpent,
                    \* exchangeRate, transactions
    now,            \* the wall clock, in ticks
    last,           \* what the most recent handler or timer run did
    trial,          \* the aggregates before the most recent applied expense
    reversalCount,  \* per transaction id, how often a cancel reversed it
    holds,          \* how many expenses the big-transaction policy has held
    pendingConfirmations,  \* confirmId -> the stored pending confirmation
    executions,     \* per confirmId issued, how often its intent was executed
    callbacks,      \* the bag of callback_query handlers suspended at
                    \* answerCallbackQuery
    otherMemory,    \* groupData.memory of a second group
    disk,           \* the group's file in DATA_DIR/groups
    saves,          \* the bag of saveAllData calls suspended at an await
    prompts,        \* confirmId -> the message handler suspended at the
                    \* sendMessage of its confirmation prompt
    enabled         \* groupData.enabled

chatVars ==
    <<pendingConfirmations, executions, callbacks, otherMemory, prompts, enabled>>

persistVars == <<disk, saves>>

vars == <<memory, now, last, trial, reversalCount, holds,
          pendingConfirmations, executions, callbacks, otherMemory,
          disk, saves, prompts, enabled>>

----------------------------------------------------------------------------
(* Bounds of the model *)

MaxTxns == 2
MaxHolds == 1
MaxConfirms == 1
MaxCallbacks == 2

\* The instants of the clock with their group-local day and month: two
\* instants of one day, then the first day of the next month.  Successive
\* instants are more than a minute apart.
Calendar ==
    << [day |-> 0, month |-> 0], [day |-> 0, month |-> 0],
       [day |-> 1, month |-> 1] >>
MaxTime == Len(Calendar) - 1

----------------------------------------------------------------------------
(* CONFIG and the defaults of createNewGroupData *)

DEFAULT_DAILY_LIMIT == 20
DEFAULT_MONTHLY_LIMIT == 1000
DEFAULT_RATE == 15000
bigTransactionThreshold == 1000000
requireAdminForBigTransactions == TRUE
autoResetDaily == TRUE

\* CONFIG.SUPER_ADMIN_IDS (from the environment) and groupData.admins
SUPER_ADMIN_IDS == {"ana"}
admins == {}
Users == {"ana", "budi"}

isUserAdmin(userId) == userId \in SUPER_ADMIN_IDS \/ userId \in admins

----------------------------------------------------------------------------
(* JavaScript values of the untrusted intent fields *)

Num(n) == [kind |-> "num", v |-> n]
NaN == [kind |-> "nan", v |-> 0]
Undefined == [kind |-> "undefined", v |-> 0]
\* a JSON string that does not begin with a number, such as "abc"
Text == [kind |-> "text", v |-> 0]
\* a JSON string that begins with the number n, such as "10abc"
Prefixed(n) == [kind |-> "prefixed", v |-> n]

\* parseFloat of a JSON number is that number; of a string it is the number
\* the string begins with, NaN when there is none; of a missing field NaN
parseFloat(x) == IF x.kind \in {"num", "prefixed"} THEN Num(x.v) ELSE NaN

\* !x: undefined, NaN and 0 are falsy, a non-empty string is not
Falsy(x) == x.kind \in {"undefined", "nan"} \/ (x.kind = "num" /\ x.v = 0)

RateAccepted_Truthy(rate) == ~Falsy(rate)

\* the rate guard of handleRateAction and of the convert branch:
\* rate && rate > 0
RateAccepted(rate) == ~Falsy(rate) /\ rate.v > 0

\* the amount guard of the handlers: !amount || amount <= 0 || isNaN(amount)
InvalidAmount(amount) == Falsy(amount) \/ amount.v <= 0 \/ amount.kind = "nan"

----------------------------------------------------------------------------
(* The group-local calendar (moment().tz(...).format) *)

\* now.format('YYYY-MM-DD') and now.format('YYYY-MM') of an instant
DayOf(t) == Calendar[t + 1].day
MonthOf(t) == Calendar[t + 1].month

----------------------------------------------------------------------------
(* Inputs: the fields of aiData, as the classifier may deliver them *)

Currencies == {"IDR", "USD"}
Missing == ""
RawAmounts == {Undefined, Num(-5), Num(0), Num(10), Num(2000000)}
\* category and countsToDailyLimit of an expense
ExpenseShapes == {<<"food", TRUE>>, <<"bills", FALSE>>}
\* conversions take the small amounts: amount * rate stays a TLC integer
RawConvertAmounts == {Undefined, Num(0), Num(10)}
ConvertPairs == {<<"USD", "IDR">>, <<"IDR", "USD">>, <<Missing, Missing>>}
RawRates == {Undefined, Num(-1), Num(0), Num(16000)}
RawTargetAmounts == {Undefined, Num(-5)}

\* x || d for a string field
OrDefault(x, d) == IF x = Missing THEN d ELSE x

----------------------------------------------------------------------------
(* memory.wallet *)

\* (memory.wallet[c] || 0)
WalletGet(w, c) == IF c \in DOMAIN w THEN w[c] ELSE 0

WalletSet(w, c, v) == [k \in DOMAIN w \cup {c} |-> IF k = c THEN v ELSE w[k]]

\* if (memory.wallet[currency] === undefined) memory.wallet[currency] = 0
EnsureKey(w, c) == IF c \in DOMAIN w THEN w ELSE WalletSet(w, c, 0)

\* monthlySpent.categories[category] = (categories[category] || 0) + amount
CategoryAdd(cats, c, amount) ==
    [k \in DOMAIN cats \cup {c} |->
        IF k = c THEN (IF c \in DOMAIN cats THEN cats[c] ELSE 0) + amount
        ELSE cats[k]]

----------------------------------------------------------------------------
(* createNewGroupData *)

NoTxn == 0

createNewGroupData(t) ==
    [wallet |-> [c \in Currencies |-> 0],
     dailySpent |-> [USD |-> 0, lastReset |-> DayOf(t)],
     monthlySpent |-> [USD |-> 0, month |-> MonthOf(t),
                       categories |-> [c \in {} |-> 0]],
     exchangeRate |-> DEFAULT_RATE,
     transactions |-> <<>>]

\* the object a handler returns, reduced to the fields the callers read
Result(success, outcome, requiresAdmin, level) ==
    [success |-> success, outcome |-> outcome, requiresAdmin |-> requiresAdmin,
     warning_level |-> level]

----------------------------------------------------------------------------
(* The big-transaction policy *)

isBigTransaction(amount) == amount > bigTransactionThreshold

HeldForAdmin_AdminsToo(amount, userId) ==
    requireAdminForBigTransactions /\ isBigTransaction(amount)

\* requiresAdminApproval && !isAdmin
HeldForAdmin(amount, userId) ==
    requireAdminForBigTransactions /\ isBigTransaction(amount)
        /\ ~isUserAdmin(userId)

----------------------------------------------------------------------------
(* handleIncomeAction *)

IncomeTxn(txnId, time, userId, amount, currency) ==
    [id |-> txnId, time |-> time, userId |-> userId, type |-> "income",
     amount |-> amount, currency |-> currency,
     targetCurrency |-> Missing, targetAmount |-> 0,
     category |-> "income", countsToDailyLimit |-> FALSE, canceled |-> FALSE,
     approvedBy |-> IF isUserAdmin(userId) THEN userId ELSE Missing,
     requiresAdminApproval |-> HeldForAdmin(amount, userId)]

handleIncomeAction(aiData, mem, userId, txnId, time) ==
    LET amount == parseFloat(aiData.amount)
        currency == OrDefault(aiData.currency, "IDR")
    IN  IF InvalidAmount(amount)
        THEN [memory |-> mem, result |-> Result(FALSE, "invalid_amount", FALSE, "none")]
        ELSE IF HeldForAdmin(amount.v, userId)
        THEN [memory |-> mem, result |-> Result(FALSE, "requires_admin", TRUE, "none")]
        ELSE LET w == EnsureKey(mem.wallet, currency)
             IN  [memory |->
                     [mem EXCEPT
                        !.wallet = WalletSet(w, currency, w[currency] + amount.v),
                        !.transactions = Append(@,
                            IncomeTxn(txnId, time, userId, amount.v, currency))],
                  result |-> Result(TRUE, "applied", FALSE, "none")]

----------------------------------------------------------------------------
(* handleExpenseAction *)

InsufficientFunds_Never(amount, balance) == FALSE

InsufficientFunds_AtLeast(amount, balance) == amount >= balance

\* if (amount > memory.wallet[currency]): the balance check
InsufficientFunds(amount, balance) == amount > balance

DailyWarningLevel_Above80(newDaily, dailyLimit) ==
    IF newDaily * 100 > 80 * dailyLimit /\ newDaily * 100 < 100 * dailyLimit
    THEN "warning"
    ELSE IF newDaily * 100 >= 100 * dailyLimit /\ newDaily * 100 < 150 * dailyLimit
    THEN "danger"
    ELSE IF newDaily * 100 >= 150 * dailyLimit
    THEN "extreme"
    ELSE "none"

\* the tier of the post-update daily percentage (newDaily / dailyLimit) * 100
DailyWarningLevel(newDaily, dailyLimit) ==
    IF newDaily * 100 >= 80 * dailyLimit /\ newDaily * 100 < 100 * dailyLimit
    THEN "warning"
    ELSE IF newDaily * 100 >= 100 * dailyLimit /\ newDaily * 100 < 150 * dailyLimit
    THEN "danger"
    ELSE IF newDaily * 100 >= 150 * dailyLimit
    THEN "extreme"
    ELSE "none"

ExpenseTxn(txnId, time, userId, amount, currency, category, counts) ==
    [id |-> txnId, time |-> time, userId |-> userId, type |-> "expense",
     amount |-> amount, currency |-> currency,
     targetCurrency |-> Missing, targetAmount |-> 0,
     category |-> category, countsToDailyLimit |-> counts, canceled |-> FALSE,
     approvedBy |-> IF isUserAdmin(userId) THEN userId ELSE Missing,
     requiresAdminApproval |-> HeldForAdmin(amount, userId)]

ExpenseDaily_IgnoresFlag(mem, amount, currency, counts) ==
    IF currency = "USD"
    THEN [mem EXCEPT !.dailySpent.USD = @ + amount]
    ELSE mem

\* the daily-limit block: dailySpent.USD = newDaily when USD and counted
ExpenseDaily(mem, amount, currency, counts) ==
    IF currency = "USD" /\ counts
    THEN [mem EXCEPT !.dailySpent.USD = @ + amount]
    ELSE mem

\* the monthly block: monthlySpent.USD and categories[category] when USD
ExpenseMonthly(mem, amount, currency, category) ==
    IF currency = "USD"
    THEN [mem EXCEPT !.monthlySpent.USD = @ + amount,
                     !.monthlySpent.categories = CategoryAdd(@, category, amount)]
    ELSE mem

handleExpenseAction(aiData, mem, userId, txnId, time) ==
    LET amount == parseFloat(aiData.amount)
        currency == OrDefault(aiData.currency, "IDR")
        counts == aiData.countsToDailyLimit
        category == OrDefault(aiData.category, "other")
    IN  IF InvalidAmount(amount)
        THEN [memory |-> mem, result |-> Result(FALSE, "invalid_amount", FALSE, "none")]
        ELSE
        LET mem0 == [mem EXCEPT !.wallet = EnsureKey(@, currency)]
        IN  IF InsufficientFunds(amount.v, mem0.wallet[currency])
            THEN [memory |-> mem0,
                  result |-> Result(FALSE, "insufficient", FALSE, "none")]
            ELSE
            LET mem1 == ExpenseDaily(mem0, amount.v, currency, counts)
                level == IF currency = "USD" /\ counts
                         THEN DailyWarningLevel(mem1.dailySpent.USD,
                                                DEFAULT_DAILY_LIMIT)
                         ELSE "none"
                mem2 == ExpenseMonthly(mem1, amount.v, currency, category)
            IN  IF HeldForAdmin(amount.v, userId)
                THEN [memory |-> mem2,
                      result |-> Result(FALSE, "requires_admin", TRUE, "none")]
                ELSE [memory |->
                        [mem2 EXCEPT
                           !.wallet[currency] = @ - amount.v,
                           !.transactions = Append(@,
                               ExpenseTxn(txnId, time, userId, amount.v,
                                          currency, category, counts))],
                      result |-> Result(TRUE, "applied", FALSE, level)]

----------------------------------------------------------------------------
(* handleCancelAction *)

userTxns_IncludeCanceled(txns, userId) ==
    {i \in 1..Len(txns) : txns[i].userId = userId}

\* .filter(t => t.userId === userId && !t.canceled)
userTxns(txns, userId) ==
    {i \in 1..Len(txns) : txns[i].userId = userId /\ ~txns[i].canceled}

\* .sort((a, b) => new Date(b.time) - new Date(a.time))[0]: the sort is
\* stable, so among the entries with the latest time the first pushed wins
lastTxnIndex(txns, cand) ==
    CHOOSE i \in cand :
        \A j \in cand :
            txns[j].time < txns[i].time \/ (txns[j].time = txns[i].time /\ i <= j)

Max0_Unclamped(x) == x

\* dailySpent.USD = Math.max(0, (dailySpent.USD || 0) - amount)
Max0(x) == IF x < 0 THEN 0 ELSE x

ReverseConvert_SourceOnly(w, txn) ==
    WalletSet(w, txn.currency, WalletGet(w, txn.currency) + txn.amount)

\* the convert branch: the source is credited back, the target debited
ReverseConvert(w, txn) ==
    LET w1 == WalletSet(w, txn.currency, WalletGet(w, txn.currency) + txn.amount)
    IN  WalletSet(w1, txn.targetCurrency,
                  WalletGet(w1, txn.targetCurrency) - txn.targetAmount)

\* the "Reverse transaction" branches
ReverseTxn(mem, txn, time) ==
    IF txn.type = "income"
    THEN [mem EXCEPT !.wallet = WalletSet(@, txn.currency,
                                    WalletGet(@, txn.currency) - txn.amount)]
    ELSE IF txn.type = "expense"
    THEN LET m1 == [mem EXCEPT !.wallet = WalletSet(@, txn.currency,
                                    WalletGet(@, txn.currency) + txn.amount)]
         IN  IF txn.currency = "USD" /\ txn.countsToDailyLimit
                 /\ DayOf(txn.time) = DayOf(time)
             THEN [m1 EXCEPT !.dailySpent.USD = Max0(@ - txn.amount)]
             ELSE m1
    ELSE IF txn.type = "convert"
    THEN [mem EXCEPT !.wallet = ReverseConvert(@, txn)]
    ELSE mem

MarkCanceled_ZeroAmount(txn) == [txn EXCEPT !.canceled = TRUE, !.amount = 0]

\* lastTxn.canceled = true (canceledAt and canceledBy are not read again)
MarkCanceled(txn) == [txn EXCEPT !.canceled = TRUE]

handleCancelAction(mem, userId, time) ==
    LET cand == userTxns(mem.transactions, userId)
    IN  IF cand = {}
        THEN [memory |-> mem, txn |-> NoTxn,
              result |-> Result(FALSE, "nothing_to_cancel", FALSE, "none")]
        ELSE LET i == lastTxnIndex(mem.transactions, cand)
                 m1 == ReverseTxn(mem, mem.transactions[i], time)
             IN  [memory |-> [m1 EXCEPT !.transactions[i] = MarkCanceled(@)],
                  txn |-> mem.transactions[i].id,
                  result |-> Result(TRUE, "applied", FALSE, "none")]

----------------------------------------------------------------------------
(* handleRateAction *)

handleRateAction(aiData, mem) ==
    LET rate == parseFloat(aiData.rate)
    IN  IF RateAccepted(rate)
        THEN [memory |-> [mem EXCEPT !.exchangeRate = rate.v],
              result |-> Result(TRUE, "applied", FALSE, "none")]
        ELSE [memory |-> mem,
              result |-> Result(FALSE, "invalid_rate", FALSE, "none")]

----------------------------------------------------------------------------
(* executeAction: the convert branch and the dispatch *)

ConvertTxn(txnId, time, userId, amount, currency, targetCurrency, targetAmount) ==
    [id |-> txnId, time |-> time, userId |-> userId, type |-> "convert",
     amount |-> amount, currency |-> currency,
     targetCurrency |-> targetCurrency, targetAmount |-> targetAmount,
     category |-> "convert", countsToDailyLimit |-> FALSE, canceled |-> FALSE,
     approvedBy |-> Missing, requiresAdminApproval |-> FALSE]

\* aiData.rate || (memory.exchangeRate || CONFIG.DEFAULT_RATE)
ConvertRate(aiData, mem) ==
    IF ~Falsy(aiData.rate) THEN aiData.rate.v
    ELSE IF mem.exchangeRate # 0 THEN mem.exchangeRate ELSE DEFAULT_RATE

\* aiData.targetAmount || (amount * rate)
ConvertTargetAmount(aiData, mem, amount) ==
    IF ~Falsy(aiData.targetAmount) THEN aiData.targetAmount.v
    ELSE amount * ConvertRate(aiData, mem)

handleConvert(aiData, mem, userId, txnId, time) ==
    LET amount == parseFloat(aiData.amount)
        currency == OrDefault(aiData.currency, "USD")
        targetCurrency == OrDefault(aiData.targetCurrency, "IDR")
    IN  IF InvalidAmount(amount)
        THEN [memory |-> mem, result |-> Result(FALSE, "invalid_amount", FALSE, "none")]
        ELSE
        LET mem0 == [mem EXCEPT !.wallet = EnsureKey(@, currency)]
            targetAmount == ConvertTargetAmount(aiData, mem, amount.v)
        IN  IF InsufficientFunds(amount.v, mem0.wallet[currency])
            THEN [memory |-> mem0,
                  result |-> Result(FALSE, "insufficient", FALSE, "none")]
            ELSE
            LET w1 == WalletSet(mem0.wallet, currency,
                                mem0.wallet[currency] - amount.v)
                w2 == EnsureKey(w1, targetCurrency)
                w3 == WalletSet(w2, targetCurrency,
                                w2[targetCurrency] + targetAmount)
            IN  [memory |->
                    [mem0 EXCEPT
                       !.wallet = w3,
                       !.exchangeRate =
                           IF RateAccepted(aiData.rate)
                           THEN aiData.rate.v ELSE @,
                       !.transactions = Append(@,
                           ConvertTxn(txnId, time, userId, amount.v, currency,
                                      targetCurrency, targetAmount))],
                 result |-> Result(TRUE, "applied", FALSE, "none")]

executeAction(aiData, mem, userId, txnId, time) ==
    IF aiData.action = "cancel"
    THEN LET r == handleCancelAction(mem, userId, time)
         IN  [memory |-> r.memory, result |-> r.result]
    ELSE IF aiData.action = "rate" THEN handleRateAction(aiData, mem)
    ELSE IF aiData.action = "income"
    THEN handleIncomeAction(aiData, mem, userId, txnId, time)
    ELSE IF aiData.action = "expense"
    THEN handleExpenseAction(aiData, mem, userId, txnId, time)
    ELSE IF aiData.action = "convert"
    THEN handleConvert(aiData, mem, userId, txnId, time)
    ELSE [memory |-> mem, result |-> Result(FALSE, "unknown_action", FALSE, "none")]

----------------------------------------------------------------------------
(* approveTransaction, behind the admin gate of handleAdminCommand *)

\* .filter(t => t.requiresAdminApproval && !t.approvedBy && !t.canceled)
pendingTxns(txns) ==
    {i \in 1..Len(txns) : txns[i].requiresAdminApproval
                            /\ txns[i].approvedBy = Missing /\ ~txns[i].canceled}

approveTransaction(mem, txnId, userId) ==
    IF pendingTxns(mem.transactions) = {}
    THEN [memory |-> mem, outcome |-> "no_pending"]
    ELSE IF txnId = NoTxn
    THEN [memory |-> mem, outcome |-> "listed"]
    ELSE IF ~\E i \in 1..Len(mem.transactions) : mem.transactions[i].id = txnId
    THEN [memory |-> mem, outcome |-> "not_found"]
    ELSE
    LET i == CHOOSE k \in 1..Len(mem.transactions) :
                 /\ mem.transactions[k].id = txnId
                 /\ \A j \in 1..(k - 1) : mem.transactions[j].id # txnId
        txn == mem.transactions[i]
        m1 == [mem EXCEPT !.transactions[i].approvedBy = userId,
                          !.transactions[i].requiresAdminApproval = FALSE]
    IN  [memory |->
            IF txn.type = "income" /\ ~txn.canceled
            THEN [m1 EXCEPT !.wallet = WalletSet(EnsureKey(@, txn.currency),
                     txn.currency, WalletGet(@, txn.currency) + txn.amount)]
            ELSE m1,
         outcome |-> "approved"]

----------------------------------------------------------------------------
(* The intents the classifier may hand to executeAction *)

AiData(action, amount, currency, targetCurrency, targetAmount, rate, category, counts) ==
    [action |-> action, amount |-> amount, currency |-> currency,
     targetCurrency |-> targetCurrency, targetAmount |-> targetAmount,
     rate |-> rate, category |-> category, countsToDailyLimit |-> counts]

IncomeIntents ==
    {AiData("income", a, c, Missing, Undefined, Undefined, Missing, FALSE) :
        a \in RawAmounts, c \in Currencies \cup {Missing}}

ExpenseIntents ==
    {AiData("expense", a, c, Missing, Undefined, Undefined, sh[1], sh[2]) :
        a \in RawAmounts, c \in Currencies \cup {Missing}, sh \in ExpenseShapes}

ConvertIntents ==
    UNION {{AiData("convert", a, p[1], p[2], ta, r, Missing, FALSE) :
               a \in RawConvertAmounts, p \in ConvertPairs} :
           ta \in RawTargetAmounts, r \in RawRates}

RateIntents ==
    {AiData("rate", Undefined, Missing, Missing, Undefined, r, Missing, FALSE) :
        r \in RawRates}

CancelIntent ==
    AiData("cancel", Undefined, Missing, Missing, Undefined, Undefined, Missing, FALSE)

----------------------------------------------------------------------------
(* Observation of a run: what the last step was, and the bookkeeping the   *)
(* properties read                                                         *)

Last(action, outcome, txn, funds, held) ==
    [action |-> action, outcome |-> outcome, txn |-> txn, funds |-> funds,
     held |-> held, level |-> "none"]

\* how the intent's amount stands against the balance it would draw on
Funds(aiData, mem, defaultCurrency) ==
    LET c == IF aiData.currency = Missing THEN defaultCurrency
             ELSE aiData.currency
    IN  IF parseFloat(aiData.amount).kind # "num" \/ aiData.amount.v <= 0 THEN "invalid"
        ELSE IF c \notin DOMAIN mem.wallet THEN "nokey"
        ELSE IF aiData.amount.v > mem.wallet[c] THEN "over"
        ELSE "within"

\* whether the big-transaction policy applies to this amount and requester
Big(aiData, userId) ==
    /\ parseFloat(aiData.amount).kind = "num"
    /\ aiData.amount.v > bigTransactionThreshold
    /\ userId \notin SUPER_ADMIN_IDS \cup admins

Snapshot(mem) ==
    [wallet |-> mem.wallet, dailyUSD |-> mem.dailySpent.USD,
     monthlyUSD |-> mem.monthlySpent.USD,
     categories |-> mem.monthlySpent.categories]

NoTrial == [stage |-> "none", user |-> Missing, txn |-> NoTxn, pre |-> <<>>]

\* Date.now()-based identifiers: fresh and increasing
NextTxnId == Len(memory.transactions) + 1

\* a pushed transaction starts with no reversal
Counted(mem) ==
    IF Len(mem.transactions) > Len(reversalCount)
    THEN Append(reversalCount, 0) ELSE reversalCount

\* the group's file before the first save has written it
NoFile == [exists |-> FALSE, data |-> createNewGroupData(0)]

----------------------------------------------------------------------------
(* The state machine *)

Init ==
    /\ now = 0
    /\ memory = createNewGroupData(0)
    /\ last = Last("start", "none", NoTxn, "na", FALSE)
    /\ trial = NoTrial
    /\ reversalCount = <<>>
    /\ holds = 0
    /\ pendingConfirmations = <<>>
    /\ executions = <<>>
    /\ callbacks = EmptyBag
    /\ otherMemory = createNewGroupData(0)
    /\ disk = NoFile
    /\ saves = EmptyBag
    /\ prompts = <<>>
    /\ enabled = TRUE

Income(userId, aiData) ==
    /\ Len(memory.transactions) < MaxTxns
    /\ LET r == executeAction(aiData, memory, userId, NextTxnId, now)
       IN  /\ memory' = r.memory
           /\ last' = Last("income", r.result.outcome,
                           IF r.result.success THEN NextTxnId ELSE NoTxn,
                           "na", Big(aiData, userId))
           /\ reversalCount' = Counted(r.memory)
    /\ trial' = NoTrial
    /\ UNCHANGED persistVars
    /\ UNCHANGED <<now, holds>>
    /\ UNCHANGED chatVars

Expense(userId, aiData) ==
    /\ Len(memory.transactions) < MaxTxns
    /\ LET r == executeAction(aiData, memory, userId, NextTxnId, now)
       IN  /\ r.result.requiresAdmin => holds < MaxHolds
           /\ holds' = IF r.result.requiresAdmin THEN holds + 1 ELSE holds
           /\ memory' = r.memory
           /\ last' = [Last("expense", r.result.outcome,
                            IF r.result.success THEN NextTxnId ELSE NoTxn,
                            Funds(aiData, memory, "IDR"), Big(aiData, userId))
                          EXCEPT !.level = r.result.warning_level]
           /\ reversalCount' = Counted(r.memory)
           /\ trial' = IF r.result.success
                       THEN [stage |-> "expensed", user |-> userId,
                             txn |-> NextTxnId, pre |-> Snapshot(memory)]
                       ELSE NoTrial
    /\ UNCHANGED persistVars
    /\ UNCHANGED now
    /\ UNCHANGED chatVars

Convert(userId, aiData) ==
    /\ Len(memory.transactions) < MaxTxns
    /\ LET r == executeAction(aiData, memory, userId, NextTxnId, now)
       IN  /\ memory' = r.memory
           /\ last' = Last("convert", r.result.outcome,
                           IF r.result.success THEN NextTxnId ELSE NoTxn,
                           Funds(aiData, memory, "USD"), FALSE)
           /\ reversalCount' = Counted(r.memory)
    /\ trial' = NoTrial
    /\ UNCHANGED persistVars
    /\ UNCHANGED <<now, holds>>
    /\ UNCHANGED chatVars

Cancel(userId) ==
    /\ LET r == handleCancelAction(memory, userId, now)
       IN  /\ memory' = executeAction(CancelIntent, memory, userId, NextTxnId, now).memory
           /\ last' = Last("cancel", r.result.outcome, r.txn, "na", FALSE)
           /\ reversalCount' =
                  IF r.result.success
                  THEN [reversalCount EXCEPT ![r.txn] = @ + 1]
                  ELSE reversalCount
           /\ trial' = IF r.result.success /\ trial.stage = "expensed"
                            /\ trial.user = userId /\ trial.txn = r.txn
                       THEN [trial EXCEPT !.stage = "cancelled"]
                       ELSE NoTrial
    /\ UNCHANGED persistVars
    /\ UNCHANGED <<now, holds>>
    /\ UNCHANGED chatVars

Rate(userId, aiData) ==
    /\ LET r == executeAction(aiData, memory, userId, NextTxnId, now)
       IN  /\ memory' = r.memory
           /\ last' = Last("rate", r.result.outcome, NoTxn, "na", FALSE)
    /\ trial' = NoTrial
    /\ UNCHANGED persistVars
    /\ UNCHANGED <<now, reversalCount, holds>>
    /\ UNCHANGED chatVars

\* /approve [transaction_id] through handleAdminCommand
Approve(userId, txnId) ==
    /\ LET r == IF isUserAdmin(userId)
                THEN approveTransaction(memory, txnId, userId)
                ELSE [memory |-> memory, outcome |-> "no_access"]
       IN  /\ memory' = r.memory
           /\ last' = Last("approve", r.outcome, NoTxn, "na", FALSE)
    /\ trial' = NoTrial
    /\ UNCHANGED persistVars
    /\ UNCHANGED <<now, reversalCount, holds>>
    /\ UNCHANGED chatVars

\* the clock advances between events
Tick ==
    /\ now < MaxTime
    /\ now' = now + 1
    /\ last' = Last("tick", "none", NoTxn, "na", FALSE)
    /\ trial' = NoTrial
    /\ UNCHANGED persistVars
    /\ UNCHANGED <<memory, reversalCount, holds>>
    /\ UNCHANGED chatVars

dailyReset_AnyConfig(mem, autoReset, time) ==
    IF mem.dailySpent.lastReset # DayOf(time)
    THEN [mem EXCEPT !.dailySpent.USD = 0, !.dailySpent.lastReset = DayOf(time)]
    ELSE mem

\* the body of dailyResetInterval for one group, whose
\* config.autoResetDaily is autoReset
dailyReset(mem, autoReset, time) ==
    IF autoReset /\ mem.dailySpent.lastReset # DayOf(time)
    THEN [mem EXCEPT !.dailySpent.USD = 0, !.dailySpent.lastReset = DayOf(time)]
    ELSE mem

\* dailyResetInterval, every minute
\* (a run that finds the marker current changes nothing)
DailyResetCheck ==
    /\ autoResetDaily /\ memory.dailySpent.lastReset # DayOf(now)
    /\ memory' = dailyReset(memory, autoResetDaily, now)
    /\ last' = Last("dailyReset", "reset", NoTxn, "na", FALSE)
    /\ trial' = NoTrial
    /\ UNCHANGED persistVars
    /\ UNCHANGED <<now, reversalCount, holds>>
    /\ UNCHANGED chatVars

\* monthlyResetInterval, every hour
\* (a run that finds the marker current changes nothing)
MonthlyResetCheck ==
    /\ memory.monthlySpent.month # MonthOf(now)
    /\ memory' = [memory EXCEPT !.monthlySpent.USD = 0,
                                !.monthlySpent.month = MonthOf(now),
                                !.monthlySpent.categories = [c \in {} |-> 0]]
    /\ last' = Last("monthlyReset", "reset", NoTxn, "na", FALSE)
    /\ trial' = NoTrial
    /\ UNCHANGED persistVars
    /\ UNCHANGED <<now, reversalCount, holds>>
    /\ UNCHANGED chatVars

Next ==
    \/ \E u \in Users, ai \in IncomeIntents : Income(u, ai)
    \/ \E u \in Users, ai \in ExpenseIntents : Expense(u, ai)
    \/ \E u \in Users, ai \in ConvertIntents : Convert(u, ai)
    \/ \E u \in Users : Cancel(u)
    \/ \E u \in Users, ai \in RateIntents : Rate(u, ai)
    \/ \E u \in Users, id \in 0..MaxTxns : Approve(u, id)
    \/ Tick
    \/ DailyResetCheck
    \/ MonthlyResetCheck

Spec == Init /\ [][Next]_vars

----------------------------------------------------------------------------
(* One expense on a funded ledger: the warning tiers *)

\* USD balances an administrator's income has left in the wallet
TierBalances == {16, 20, 30, 1000, 1500}

\* amounts on both sides of each tier boundary of the default limits
TierAmounts == {15, 16, 19, 20, 29, 30, 800, 1000, 1500}

TierIntents ==
    {AiData("expense", Num(a), "USD", Missing, Undefined, Undefined, sh[1], sh[2]) :
        a \in TierAmounts, sh \in ExpenseShapes}

\* the ledger after the income of w USD by a super admin on a new group
Funded(w) ==
    executeAction(AiData("income", Num(w), "USD", Missing, Undefined, Undefined,
                         Missing, FALSE),
                  createNewGroupData(0), "ana", 1, 0).memory

TierInit ==
    /\ now = 0
    /\ \E w \in TierBalances : memory = Funded(w)
    /\ last = Last("income", "applied", 1, "na", FALSE)
    /\ trial = NoTrial
    /\ reversalCount = <<0>>
    /\ holds = 0
    /\ pendingConfirmations = <<>>
    /\ executions = <<>>
    /\ callbacks = EmptyBag
    /\ otherMemory = createNewGroupData(0)
    /\ disk = NoFile
    /\ saves = EmptyBag
    /\ prompts = <<>>
    /\ enabled = TRUE

TierNext ==
    \E u \in Users, ai \in TierIntents : Expense(u, ai)

TierSpec == TierInit /\ [][TierNext]_vars

----------------------------------------------------------------------------
(* The confirmation sub-protocol: the message handler stores a pending      *)
(* confirmation instead of executing a flagged intent, and the              *)
(* callback_query handler redeems it                                        *)

Chats == {"A", "B"}

\* the chat of the group whose ledger is memory
HomeChat == "A"

\* an intent with the classifier's requires_confirm and warning_level
Flagged(aiData, requires_confirm, warning_level) ==
    [action |-> aiData.action, amount |-> aiData.amount,
     currency |-> aiData.currency, targetCurrency |-> aiData.targetCurrency,
     targetAmount |-> aiData.targetAmount, rate |-> aiData.rate,
     category |-> aiData.category,
     countsToDailyLimit |-> aiData.countsToDailyLimit,
     requires_confirm |-> requires_confirm, warning_level |-> warning_level]

ChatIncome == AiData("income", Num(20), "USD", Missing, Undefined, Undefined, Missing, FALSE)
ChatExpense == AiData("expense", Num(20), "USD", Missing, Undefined, Undefined, "food", TRUE)
ChatConvert == AiData("convert", Num(20), "USD", "IDR", Undefined, Undefined, Missing, FALSE)

ChatIntents ==
    {Flagged(ChatIncome, FALSE, "none"), Flagged(ChatIncome, TRUE, "none"),
     Flagged(ChatExpense, FALSE, "none"), Flagged(ChatExpense, FALSE, "danger"),
     Flagged(ChatConvert, TRUE, "none")}

\* if (aiData.requires_confirm || aiData.warning_level === 'danger' || ...)
needsConfirmation(aiData) ==
    aiData.requires_confirm \/ aiData.warning_level \in {"danger", "extreme"}

DirectIntents(action) ==
    {ai \in ChatIntents : ai.action = action /\ ~needsConfirmation(ai)}

\* pendingConfirmations[confirmId] = {chatId, userId, aiData, timestamp,
\* groupData: JSON.parse(JSON.stringify(groupData))}
PendingConfirmation(chatId, userId, aiData, time, mem) ==
    [chatId |-> chatId, userId |-> userId, aiData |-> aiData,
     timestamp |-> time, groupData |-> mem]

DeleteConfirmation_Keep(pending, id) == pending

\* delete pendingConfirmations[id]
DeleteConfirmation(pending, id) ==
    [k \in DOMAIN pending \ {id} |-> pending[k]]

Overdue_Never(pending, time) == FALSE

\* now - pending.timestamp > 60000, and the delay of the setTimeout
Overdue(pending, time) == time > pending.timestamp

\* const groupData = getGroupData(chatId): the live ledger of the chat the
\* callback came from
getGroupData(chatId, home, other) == IF chatId = HomeChat THEN home ELSE other

\* the message handler stores the pending confirmation of a flagged intent
Register(userId, aiData) ==
    /\ needsConfirmation(aiData)
    /\ Len(executions) < MaxConfirms
    /\ pendingConfirmations' =
          [k \in DOMAIN pendingConfirmations \cup {Len(executions) + 1} |->
              IF k \in DOMAIN pendingConfirmations THEN pendingConfirmations[k]
              ELSE PendingConfirmation(HomeChat, userId, aiData, now, memory)]
    /\ executions' = Append(executions, 0)
    /\ last' = Last("register", "pending", NoTxn, "na", FALSE)
    /\ trial' = NoTrial
    /\ UNCHANGED <<persistVars, prompts, enabled>>
    /\ UNCHANGED <<memory, now, reversalCount, holds, callbacks, otherMemory>>

\* one callback_query: where it came from, who sent it, and its data
Callback(chatId, userId, id, choice) ==
    [chatId |-> chatId, userId |-> userId, id |-> id, choice |-> choice]

\* a callback_query arrives; its handler awaits bot.answerCallbackQuery
Click(userId, chatId, id, choice) ==
    /\ BagCardinality(callbacks) < MaxCallbacks
    /\ callbacks' = callbacks (+) SetToBag({Callback(chatId, userId, id, choice)})
    /\ last' = Last("click", "none", NoTxn, "na", FALSE)
    /\ trial' = NoTrial
    /\ UNCHANGED <<persistVars, prompts, enabled>>
    /\ UNCHANGED <<memory, now, reversalCount, holds, pendingConfirmations,
                   executions, otherMemory>>

callbackAction_AlwaysConfirm(choice) == "confirm"

\* const action = data.endsWith('_yes') ? 'confirm' : 'cancel'
callbackAction(choice) == IF choice = "yes" THEN "confirm" ELSE "cancel"

isRequester_Anyone(stored, userId) == TRUE

\* the negation of: if (pending.userId !== userId)
isRequester(stored, userId) == stored.userId = userId

ledgerToExecuteOn_Stored(stored, live) == stored.groupData

\* executeAction(pending.aiData, groupData, ...): the ledger handed to
\* executeAction is the one getGroupData returned, not pending.groupData
ledgerToExecuteOn(stored, live) == live

\* the callback_query handler from the lookup of the pending confirmation
\* to the return of executeAction
handleConfirmation(cb, pending, home, other, time) ==
    IF cb.id \notin DOMAIN pending
    THEN [pending |-> pending, home |-> home, other |-> other,
          outcome |-> "expired", executed |-> FALSE]
    ELSE IF ~isRequester(pending[cb.id], cb.userId)
    THEN [pending |-> pending, home |-> home, other |-> other,
          outcome |-> "not_yours", executed |-> FALSE]
    ELSE IF callbackAction(cb.choice) = "cancel"
    THEN [pending |-> DeleteConfirmation(pending, cb.id), home |-> home,
          other |-> other, outcome |-> "declined", executed |-> FALSE]
    ELSE
    LET groupData == ledgerToExecuteOn(pending[cb.id],
                                       getGroupData(cb.chatId, home, other))
        r == executeAction(pending[cb.id].aiData, groupData, cb.userId,
                           Len(groupData.transactions) + 1, time)
    IN  [pending |-> DeleteConfirmation(pending, cb.id),
         home |-> IF cb.chatId = HomeChat THEN r.memory ELSE home,
         other |-> IF cb.chatId = HomeChat THEN other ELSE r.memory,
         outcome |-> r.result.outcome, executed |-> TRUE]

\* the handler of one callback resumes and runs to its next await
Redeem(cb) ==
    /\ BagIn(cb, callbacks)
    /\ LET r == handleConfirmation(cb, pendingConfirmations, memory,
                                   otherMemory, now)
       IN  /\ Len(r.home.transactions) <= MaxTxns
           /\ Len(r.other.transactions) <= MaxTxns
           /\ pendingConfirmations' = r.pending
           /\ memory' = r.home
           /\ otherMemory' = r.other
           /\ executions' = IF r.executed
                            THEN [executions EXCEPT ![cb.id] = @ + 1]
                            ELSE executions
           /\ reversalCount' = Counted(r.home)
           /\ last' = Last("callback", r.outcome, NoTxn,
                           IF r.executed
                           THEN Funds(pendingConfirmations[cb.id].aiData,
                                      pendingConfirmations[cb.id].groupData,
                                      "IDR")
                           ELSE "na",
                           FALSE)
    /\ callbacks' = callbacks (-) SetToBag({cb})
    /\ trial' = NoTrial
    /\ UNCHANGED <<persistVars, prompts, enabled>>
    /\ UNCHANGED <<now, holds>>

\* setTimeout(() => delete pendingConfirmations[confirmId], 60000)
ExpiryTimer(id) ==
    /\ id \in DOMAIN pendingConfirmations
    /\ Overdue(pendingConfirmations[id], now)
    /\ pendingConfirmations' = DeleteConfirmation(pendingConfirmations, id)
    /\ last' = Last("expiry", "deleted", NoTxn, "na", FALSE)
    /\ trial' = NoTrial
    /\ UNCHANGED <<persistVars, prompts, enabled>>
    /\ UNCHANGED <<memory, now, reversalCount, holds, executions, callbacks,
                   otherMemory>>

\* cleanupInterval, every five minutes
Cleanup ==
    /\ \E id \in DOMAIN pendingConfirmations :
          Overdue(pendingConfirmations[id], now)
    /\ pendingConfirmations' =
          [k \in {id \in DOMAIN pendingConfirmations :
                     ~Overdue(pendingConfirmations[id], now)} |->
              pendingConfirmations[k]]
    /\ last' = Last("cleanup", "deleted", NoTxn, "na", FALSE)
    /\ trial' = NoTrial
    /\ UNCHANGED <<persistVars, prompts, enabled>>
    /\ UNCHANGED <<memory, now, reversalCount, holds, executions, callbacks,
                   otherMemory>>

ChatNext ==
    \/ \E u \in Users, ai \in DirectIntents("income") : Income(u, ai)
    \/ \E u \in Users, ai \in DirectIntents("expense") : Expense(u, ai)
    \/ \E u \in Users, ai \in ChatIntents : Register(u, ai)
    \/ \E u \in Users, c \in Chats, id \in 1..Len(executions),
          choice \in {"yes", "no"} : Click(u, c, id, choice)
    \/ \E cb \in BagToSet(callbacks) : Redeem(cb)
    \/ \E id \in DOMAIN pendingConfirmations : ExpiryTimer(id)
    \/ Cleanup
    \/ Tick

ChatSpec == Init /\ [][ChatNext]_vars

----------------------------------------------------------------------------
(* Properties *)

\* the signed amount of one transaction in currency c
Signed(txn, c) ==
    IF txn.canceled THEN 0
    ELSE IF txn.type = "income" THEN (IF txn.currency = c THEN txn.amount ELSE 0)
    ELSE IF txn.type = "expense" THEN (IF txn.currency = c THEN -txn.amount ELSE 0)
    ELSE IF txn.type = "convert"
    THEN (IF txn.currency = c THEN -txn.amount ELSE 0)
         + (IF txn.targetCurrency = c THEN txn.targetAmount ELSE 0)
    ELSE 0

RECURSIVE SignedSum(_, _)
SignedSum(txns, c) ==
    IF txns = <<>> THEN 0
    ELSE Signed(Head(txns), c) + SignedSum(Tail(txns), c)

\* C1: for every currency the stored balance is the signed sum of the
\* non-canceled transactions of the log (income +, expense -, convert - on
\* the source and + on the target).
BalanceConservation ==
    \A c \in DOMAIN memory.wallet :
        memory.wallet[c] = SignedSum(memory.transactions, c)

\* a conversion stands in the log beside a canceled transaction
BalanceConservationWitness ==
    /\ \E i \in 1..Len(memory.transactions) :
           /\ memory.transactions[i].type = "convert"
           /\ memory.transactions[i].canceled
    /\ \E i \in 1..Len(memory.transactions) :
           ~memory.transactions[i].canceled
    /\ \E c \in DOMAIN memory.wallet : memory.wallet[c] # 0

\* C2: an expense or conversion whose amount exceeds the balance of its
\* currency is rejected, and the step leaves the whole ledger as it was.
InsufficientFundsBlocks ==
    [][(last'.action \in {"expense", "convert"} /\ last'.funds = "over")
          => (last'.outcome = "insufficient" /\ memory' = memory)]_vars

\* an expense over a non-empty balance has just been rejected
InsufficientFundsWitness ==
    /\ last.action = "expense"
    /\ last.funds = "over"
    /\ last.outcome = "insufficient"
    /\ \E c \in DOMAIN memory.wallet : memory.wallet[c] > 0

\* the step appends one expense and debits its amount from its currency
ExpenseApplied ==
    /\ last'.outcome = "applied"
    /\ Len(memory'.transactions) = Len(memory.transactions) + 1
    /\ SubSeq(memory'.transactions, 1, Len(memory.transactions))
          = memory.transactions
    /\ LET t == memory'.transactions[Len(memory'.transactions)]
       IN  /\ t.type = "expense" /\ ~t.canceled /\ t.amount > 0
           /\ memory'.wallet =
                 [memory.wallet EXCEPT ![t.currency] = @ - t.amount]

\* C3, as stated: every expense with 0 < amount <= balance succeeds.
LimitsNeverBlockAsStated ==
    [][(last'.action = "expense" /\ last'.funds = "within")
          => ExpenseApplied]_vars

\* C3, amended: every expense with 0 < amount <= balance that the
\* big-transaction policy does not hold succeeds, whatever the daily and
\* monthly percentages become.
LimitsNeverBlock ==
    [][(last'.action = "expense" /\ last'.funds = "within" /\ ~last'.held)
          => ExpenseApplied]_vars

\* an expense has just been applied that took both aggregates past 100%
LimitsNeverBlockWitness ==
    /\ last.action = "expense"
    /\ last.outcome = "applied"
    /\ memory.dailySpent.USD * 100 > 100 * DEFAULT_DAILY_LIMIT
    /\ memory.monthlySpent.USD * 100 > 100 * DEFAULT_MONTHLY_LIMIT

\* C4: an expense followed at once by its author's cancel of it leaves the
\* wallet, the daily amount, the monthly amount and the categories as they
\* were before the expense.
ReversalIsInverse ==
    trial.stage = "cancelled" => Snapshot(memory) = trial.pre

\* the amount a transaction contributes to the USD expenses of category c
\* (of every category when c is Missing) in month m
MonthlyPart(txn, m, c) ==
    IF /\ txn.type = "expense" /\ ~txn.canceled /\ txn.currency = "USD"
       /\ MonthOf(txn.time) = m
       /\ (c = Missing \/ txn.category = c)
    THEN txn.amount ELSE 0

RECURSIVE MonthlySum(_, _, _)
MonthlySum(txns, m, c) ==
    IF txns = <<>> THEN 0
    ELSE MonthlyPart(Head(txns), m, c) + MonthlySum(Tail(txns), m, c)

Categories == {shape[1] : shape \in ExpenseShapes}

CategoryGet(cats, c) == IF c \in DOMAIN cats THEN cats[c] ELSE 0

\* C5: the monthly amount equals the sum of the non-canceled USD expenses
\* dated in the current month, and each category's amount equals that sum
\* restricted to the category.
MonthlyReconciles ==
    /\ memory.monthlySpent.USD
          = MonthlySum(memory.transactions, MonthOf(now), Missing)
    /\ \A c \in Categories :
          CategoryGet(memory.monthlySpent.categories, c)
             = MonthlySum(memory.transactions, MonthOf(now), c)

\* the amount a transaction contributes to the counted USD expenses of day d
DailyPart(txn, d) ==
    IF /\ txn.type = "expense" /\ ~txn.canceled /\ txn.currency = "USD"
       /\ txn.countsToDailyLimit
       /\ DayOf(txn.time) = d
    THEN txn.amount ELSE 0

RECURSIVE DailySum(_, _)
DailySum(txns, d) ==
    IF txns = <<>> THEN 0
    ELSE DailyPart(Head(txns), d) + DailySum(Tail(txns), d)

\* C6: the daily amount equals the sum of the non-canceled USD expenses
\* that count to the daily limit and are dated in the current day.
DailyReconciles ==
    memory.dailySpent.USD = DailySum(memory.transactions, DayOf(now))

\* C7: no balance is negative once an intent has finished, the cancel of
\* an income or conversion whose proceeds were already spent included.
WalletNonNegative ==
    \A c \in DOMAIN memory.wallet : memory.wallet[c] >= 0

\* C8: a transaction is reversed at most once: a canceled flag is never
\* unset, and a cancel selects a transaction that was not canceled and
\* cancels it.
ReversedAtMostOnce ==
    [][/\ \A i \in DOMAIN reversalCount' : reversalCount'[i] <= 1
       /\ \A i \in 1..Len(memory.transactions) :
             memory.transactions[i].canceled
                => /\ i <= Len(memory'.transactions)
                   /\ memory'.transactions[i].id = memory.transactions[i].id
                   /\ memory'.transactions[i].canceled
       /\ (last'.action = "cancel" /\ last'.outcome = "applied")
             => \E i \in 1..Len(memory.transactions) :
                   /\ memory.transactions[i].id = last'.txn
                   /\ ~memory.transactions[i].canceled
                   /\ memory'.transactions[i].canceled
                   /\ reversalCount'[i] = 1]_vars

\* a cancel has just been refused on a log whose transactions are all
\* canceled already
ReversedAtMostOnceWitness ==
    /\ last.action = "cancel"
    /\ last.outcome = "nothing_to_cancel"
    /\ Len(memory.transactions) = MaxTxns
    /\ \A i \in 1..Len(memory.transactions) :
          /\ memory.transactions[i].canceled
          /\ reversalCount[i] = 1

\* C9: an income or expense held for an administrator leaves the ledger
\* as it was.
HeldLeavesLedgerUnchanged ==
    [][(last'.action \in {"income", "expense"}
           /\ last'.outcome = "requires_admin")
          => memory' = memory]_vars

\* C10: an income held for an administrator stays in the log as a pending
\* transaction, which an administrator can later approve.
HeldIncomeIsPending ==
    (last.action = "income" /\ last.outcome = "requires_admin")
       => \E i \in pendingTxns(memory.transactions) :
             memory.transactions[i].type = "income"

\* the tier of a percentage spent / limit * 100
Tier(spent, limit) ==
    IF spent * 100 < 80 * limit THEN "none"
    ELSE IF spent * 100 < 100 * limit THEN "warning"
    ELSE IF spent * 100 < 150 * limit THEN "danger"
    ELSE "extreme"

\* the step has applied a USD expense
AppliedUSDExpense ==
    /\ last'.action = "expense"
    /\ last'.outcome = "applied"
    /\ Len(memory'.transactions) = Len(memory.transactions) + 1
    /\ memory'.transactions[Len(memory'.transactions)].currency = "USD"

\* C11: the warning level returned for a successful daily-counted USD
\* expense is the tier of the post-update daily percentage p: none below
\* 80, warning from 80, danger from 100, extreme from 150.
WarningTierBoundaries ==
    [][(AppliedUSDExpense
          /\ memory'.transactions[Len(memory'.transactions)].countsToDailyLimit)
          => last'.level = Tier(memory'.dailySpent.USD, DEFAULT_DAILY_LIMIT)]_vars

\* a counted expense has just brought the day to exactly 150% of the limit
WarningTierBoundariesWitness ==
    /\ last.action = "expense"
    /\ last.outcome = "applied"
    /\ last.level = "extreme"
    /\ memory.dailySpent.USD * 100 = 150 * DEFAULT_DAILY_LIMIT

Rank(level) ==
    IF level = "none" THEN 0
    ELSE IF level = "warning" THEN 1
    ELSE IF level = "danger" THEN 2
    ELSE 3

Severer(a, b) == IF Rank(a) >= Rank(b) THEN a ELSE b

\* C12: the warning level returned for a successful USD expense is the more
\* severe of the tier of the post-update daily percentage and the tier of
\* the post-update monthly percentage.
OverallLevelIsMostSevere ==
    [][AppliedUSDExpense
          => last'.level =
                Severer(Tier(memory'.dailySpent.USD, DEFAULT_DAILY_LIMIT),
                        Tier(memory'.monthlySpent.USD, DEFAULT_MONTHLY_LIMIT))]_vars

\* the step is the resumption of the handler of callback cb
Resumed(cb) ==
    /\ BagIn(cb, callbacks)
    /\ callbacks' = callbacks (-) SetToBag({cb})

\* the step appends a transaction of the given type to the group's log
Appends(type) ==
    /\ Len(memory'.transactions) = Len(memory.transactions) + 1
    /\ memory'.transactions[Len(memory'.transactions)].type = type

\* C13: an expense that takes the daily or the monthly percentage to 100%
\* or more is applied only by the confirmation of its requester.
ConfirmBeforeDanger ==
    [][(/\ Appends("expense")
        /\ \/ memory'.dailySpent.USD * 100 >= 100 * DEFAULT_DAILY_LIMIT
           \/ memory'.monthlySpent.USD * 100 >= 100 * DEFAULT_MONTHLY_LIMIT)
          => last'.action = "callback"]_vars

\* C14: storing a pending confirmation, declining it and its expiry leave
\* the wallet, the log, the aggregates and the exchange rate of every
\* group as they were.
PendingHasNoEffect ==
    [][(\/ Len(executions') > Len(executions)
        \/ (/\ DOMAIN pendingConfirmations' # DOMAIN pendingConfirmations
            /\ callbacks' = callbacks
            /\ executions' = executions)
        \/ (\E cb \in BagToSet(callbacks) : Resumed(cb) /\ cb.choice = "no"))
          => (memory' = memory /\ otherMemory' = otherMemory)]_vars

\* a confirmation of an intent on a funded ledger has just been declined
PendingHasNoEffectWitness ==
    /\ last.action = "callback"
    /\ last.outcome = "declined"
    /\ memory.wallet["USD"] > 0
    /\ Len(executions) > 0
    /\ pendingConfirmations = <<>>

\* C15: a pending confirmation is executed at most once, and a callback
\* for a confirmation that was already executed is answered as expired and
\* changes no ledger.
SingleUse ==
    [][/\ \A id \in DOMAIN executions' : executions'[id] <= 1
       /\ \A cb \in BagToSet(callbacks) :
             (Resumed(cb) /\ executions[cb.id] >= 1)
                => /\ last'.outcome = "expired"
                   /\ memory' = memory
                   /\ otherMemory' = otherMemory]_vars

\* the second of two clicks on an executed confirmation was answered as
\* expired
SingleUseWitness ==
    /\ last.action = "callback"
    /\ last.outcome = "expired"
    /\ \E id \in DOMAIN executions : executions[id] = 1
    /\ Len(memory.transactions) > 0

\* C16: a callback from a user other than the requester neither executes
\* nor discards the pending confirmation and changes no ledger.
BoundToRequester ==
    [][\A cb \in BagToSet(callbacks) :
          (/\ Resumed(cb)
           /\ cb.id \in DOMAIN pendingConfirmations
           /\ pendingConfirmations[cb.id].userId # cb.userId)
             => /\ last'.outcome = "not_yours"
                /\ pendingConfirmations' = pendingConfirmations
                /\ executions' = executions
                /\ memory' = memory
                /\ otherMemory' = otherMemory]_vars

\* another user's confirm click has just been refused and the
\* confirmation is still stored
BoundToRequesterWitness ==
    /\ last.action = "callback"
    /\ last.outcome = "not_yours"
    /\ pendingConfirmations # <<>>

\* C17: a callback that arrives from a chat other than the one the
\* confirmation was stored for applies the intent to no ledger.
NotRedeemableInOtherGroup ==
    [][\A cb \in BagToSet(callbacks) :
          (/\ Resumed(cb)
           /\ cb.id \in DOMAIN pendingConfirmations
           /\ pendingConfirmations[cb.id].chatId # cb.chatId)
             => (memory' = memory /\ otherMemory' = otherMemory)]_vars

\* C18: a callback handled in the chat of its confirmation after the
\* deadline of the confirmation applies the intent to no ledger.
HonouredOnlyBeforeDeadline ==
    [][\A cb \in BagToSet(callbacks) :
          (/\ Resumed(cb)
           /\ cb.id \in DOMAIN pendingConfirmations
           /\ cb.chatId = pendingConfirmations[cb.id].chatId
           /\ Overdue(pendingConfirmations[cb.id], now))
             => (memory' = memory /\ otherMemory' = otherMemory)]_vars

\* C19: a confirmed expense or conversion whose amount exceeds the balance
\* the group has when the confirmation is handled is rejected and leaves
\* the ledger as it was, whatever the balance was when it was stored.
RevalidatedAtConfirmation ==
    [][\A cb \in BagToSet(callbacks) :
          (/\ Resumed(cb)
           /\ cb.id \in DOMAIN pendingConfirmations
           /\ cb.chatId = HomeChat
           /\ cb.choice = "yes"
           /\ pendingConfirmations[cb.id].userId = cb.userId
           /\ pendingConfirmations[cb.id].aiData.action \in {"expense", "convert"}
           /\ Funds(pendingConfirmations[cb.id].aiData, memory, "IDR") = "over")
             => (last'.outcome = "insufficient" /\ memory' = memory)]_vars

\* a confirmation that the balance covered when it was stored has just
\* been rejected for insufficient funds
RevalidatedAtConfirmationWitness ==
    /\ last.action = "callback"
    /\ last.outcome = "insufficient"
    /\ last.funds = "within"

\* post is pre after one whole intent: one transaction appended, its
\* amount covered by the balance of pre, and the wallet moved by it
WholeIntent(pre, post) ==
    /\ Len(post.transactions) = Len(pre.transactions) + 1
    /\ SubSeq(post.transactions, 1, Len(pre.transactions)) = pre.transactions
    /\ LET t == post.transactions[Len(post.transactions)]
       IN  /\ t.type \in {"expense", "convert"}
                => t.amount <= WalletGet(pre.wallet, t.currency)
           /\ \A c \in DOMAIN post.wallet :
                 post.wallet[c] = WalletGet(pre.wallet, c) + Signed(t, c)

\* C20: every step that applies an intent is the whole intent: the balance
\* check, the wallet mutation and the log append are made on the ledger as
\* it is at that step, whatever other handlers are suspended.
OneUnitPerIntent ==
    [][(last'.outcome = "applied"
           /\ last'.action \in {"income", "expense", "convert", "callback"})
          => \/ (WholeIntent(memory, memory') /\ otherMemory' = otherMemory)
             \/ (WholeIntent(otherMemory, otherMemory') /\ memory' = memory)]_vars

\* a confirmed expense has emptied the wallet while another callback
\* handler is still suspended
OneUnitPerIntentWitness ==
    /\ last.action = "callback"
    /\ last.outcome = "applied"
    /\ callbacks # EmptyBag
    /\ Len(memory.transactions) = 2
    /\ memory.transactions[2].type = "expense"
    /\ memory.wallet["USD"] = 0

----------------------------------------------------------------------------
(* Periods, cancellation target and the log under the intents *)

\* C24: whenever an expense is applied, the day marker of the daily
\* aggregate is the current day and the month marker of the monthly
\* aggregate is the current month.
ExpenseInCurrentPeriod ==
    [][(last'.action = "expense" /\ ExpenseApplied)
          => /\ memory.dailySpent.lastReset = DayOf(now)
             /\ memory.monthlySpent.month = MonthOf(now)]_vars

\* the most recent transaction of userId that is not canceled; among equal
\* times the one with the greater identifier
LatestOwn(txns, userId) ==
    CHOOSE i \in userTxns(txns, userId) :
        \A j \in userTxns(txns, userId) :
            \/ txns[j].time < txns[i].time
            \/ (txns[j].time = txns[i].time /\ txns[j].id <= txns[i].id)

\* C26: a cancel by u reverses exactly the most recent non-canceled
\* transaction authored by u (on equal timestamps the one issued later),
\* never one of another user; with no such transaction it is rejected and
\* the ledger is unchanged.
CancelReversesLatestOwn ==
    [][\A u \in Users :
          Cancel(u) =>
             IF userTxns(memory.transactions, u) = {}
             THEN last'.outcome = "nothing_to_cancel" /\ memory' = memory
             ELSE LET i == LatestOwn(memory.transactions, u)
                  IN  /\ last'.outcome = "applied"
                      /\ last'.txn = memory.transactions[i].id
                      /\ memory'.transactions =
                            [memory.transactions EXCEPT ![i].canceled = TRUE]]_vars

\* C27: no step removes a transaction from the log or changes its kind,
\* amount, currency, author or timestamp; a step changes nothing of a
\* logged transaction but its canceled flag, and never clears that flag.
LogAppendOnly ==
    [][\A i \in 1..Len(memory.transactions) :
          /\ i <= Len(memory'.transactions)
          /\ LET a == memory.transactions[i]
                 b == memory'.transactions[i]
             IN  /\ [b EXCEPT !.canceled = a.canceled] = a
                 /\ a.canceled => b.canceled]_vars

\* a cancel has flagged the second of two logged transactions
LogAppendOnlyWitness ==
    /\ last.action = "cancel"
    /\ last.outcome = "applied"
    /\ Len(memory.transactions) = 2
    /\ memory.transactions[2].canceled
    /\ ~memory.transactions[1].canceled

----------------------------------------------------------------------------
(* Intents as an untrusted classifier may deliver them: any currency      *)
(* string, strings for numbers                                             *)

UntrustedCurrencies == {"IDR", "USD", "EUR", Missing}
UntrustedAmounts ==
    {Undefined, Text, Prefixed(10), Num(-5), Num(0), Num(10), Num(20000000)}
\* expenses and conversions take the small amounts: amount * rate and the
\* percentages of the limits stay TLC integers
UntrustedSmallAmounts == {Undefined, Text, Prefixed(10), Num(0), Num(10)}
UntrustedRates ==
    {Undefined, Text, Prefixed(16000), Num(-1), Num(0), Num(16000)}

UntrustedIncomes ==
    {AiData("income", a, c, Missing, Undefined, Undefined, Missing, FALSE) :
        a \in UntrustedAmounts, c \in UntrustedCurrencies}

UntrustedExpenses ==
    {AiData("expense", a, c, Missing, Undefined, Undefined, "food", TRUE) :
        a \in UntrustedSmallAmounts, c \in UntrustedCurrencies}

UntrustedConverts ==
    {AiData("convert", a, c, tc, Undefined, Undefined, Missing, FALSE) :
        a \in UntrustedSmallAmounts, c \in UntrustedCurrencies,
        tc \in UntrustedCurrencies}

UntrustedRateIntents ==
    {AiData("rate", Undefined, Missing, Missing, Undefined, r, Missing, FALSE) :
        r \in UntrustedRates}

UntrustedNext ==
    \/ \E u \in Users, ai \in UntrustedIncomes : Income(u, ai)
    \/ \E u \in Users, ai \in UntrustedExpenses : Expense(u, ai)
    \/ \E u \in Users, ai \in UntrustedConverts : Convert(u, ai)
    \/ \E u \in Users, ai \in UntrustedRateIntents : Rate(u, ai)

UntrustedSpec == Init /\ [][UntrustedNext]_vars

\* the income intent of IDR 20,000,000
Income20M ==
    AiData("income", Num(20000000), "IDR", Missing, Undefined, Undefined, Missing, FALSE)

\* the income has been applied to the fresh group pre, giving post
Income20MApplied(pre, post) ==
    /\ last'.outcome = "applied"
    /\ post.wallet["IDR"] = 20000000
    /\ Len(post.transactions) = 1
    /\ post.monthlySpent = pre.monthlySpent

\* C25 as stated: on a freshly created group the income of IDR 20,000,000 of
\* any acting user is applied.
FreshIncomeAppliedAsStated ==
    [][\A u \in Users :
          (memory = createNewGroupData(0) /\ Income(u, Income20M))
             => Income20MApplied(memory, memory')]_vars

\* C25: on a freshly created group the income of IDR 20,000,000 of an
\* administrator is applied (wallet IDR 20,000,000, one transaction, the
\* monthly aggregate unchanged); that of any other user is above the
\* big-transaction threshold and is held, with the ledger unchanged.
FreshIncomeApplied ==
    [][\A u \in Users :
          (memory = createNewGroupData(0) /\ Income(u, Income20M))
             => IF u \in SUPER_ADMIN_IDS \cup admins
                THEN Income20MApplied(memory, memory')
                ELSE /\ last'.outcome = "requires_admin"
                     /\ memory' = memory]_vars

\* the administrator's income of IDR 20,000,000 is the only transaction
FreshIncomeAppliedWitness ==
    /\ last.action = "income"
    /\ last.outcome = "applied"
    /\ memory.wallet["IDR"] = 20000000
    /\ Len(memory.transactions) = 1
    /\ memory.transactions[1].userId \in SUPER_ADMIN_IDS

\* C28: the wallet has exactly the keys IDR and USD in every reachable
\* state (an intent naming another currency leaves the ledger unchanged).
SupportedCurrenciesOnly == DOMAIN memory.wallet = {"IDR", "USD"}

\* what the claims call an amount or rate that is no positive number
NotPositiveNumber(x) == x.kind # "num" \/ x.v <= 0

\* C29: an income, expense or convert intent whose amount is missing,
\* non-numeric, zero or negative is rejected and the ledger is unchanged.
InvalidAmountRejected ==
    [][\A u \in Users :
          \A ai \in UntrustedIncomes \cup UntrustedExpenses \cup UntrustedConverts :
             (NotPositiveNumber(ai.amount)
                 /\ (Income(u, ai) \/ Expense(u, ai) \/ Convert(u, ai)))
                => (~last'.outcome = "applied" /\ memory' = memory)]_vars

\* C30: a rate-update with a positive rate sets the exchange rate to it and
\* changes nothing else; one with a missing, zero, negative or non-numeric
\* rate is rejected and changes nothing.
RateUpdateSetsOnlyRate ==
    [][\A u \in Users : \A ai \in UntrustedRateIntents :
          Rate(u, ai)
             => IF NotPositiveNumber(ai.rate)
                THEN last'.outcome = "invalid_rate" /\ memory' = memory
                ELSE /\ last'.outcome = "applied"
                     /\ memory' = [memory EXCEPT !.exchangeRate = ai.rate.v]]_vars

----------------------------------------------------------------------------
(* Persistence: saveAllData, the callers that await it, loadAllData        *)

MaxSaves == 2

\* a call of saveAllData suspended at the await named by pc: of
\* ensureDirectories ("dirs"), of the write of global.json ("global"), of
\* groups.json ("list"), of the group's file ("group"); content is the
\* JSON.stringify(groupData) handed to the write of the group's file
SaveCall(by, outcome) ==
    [pc |-> "dirs", by |-> by, outcome |-> outcome, content |-> NoFile.data]

SavesInFlight == BagCardinality(saves)

\* the calls that have begun to write and have not finished
Writers == {s \in BagToSet(saves) : s.pc \in {"global", "list", "group"}}

RECURSIVE CopiesOf(_)
CopiesOf(S) ==
    IF S = {} THEN 0
    ELSE LET s == CHOOSE x \in S : TRUE
         IN  CopiesIn(s, saves) + CopiesOf(S \ {s})

reportAfterSave_FailsWhenUnsaved(outcome, saved) ==
    IF saved THEN outcome ELSE "save_failed"

\* await saveAllData(); return { success: true, ... }: the value of
\* saveAllData is not read
reportAfterSave(outcome, saved) == outcome

\* the intents of the persistence runs
PersistIntents ==
    {AiData("income", Num(10), "USD", Missing, Undefined, Undefined, Missing, FALSE),
     AiData("expense", Num(10), "USD", Missing, Undefined, Undefined, "food", TRUE),
     AiData("convert", Num(10), "USD", "IDR", Undefined, Undefined, Missing, FALSE),
     AiData("rate", Undefined, Missing, Missing, Undefined, Num(16000), Missing, FALSE),
     CancelIntent}

savesAfter_NotRate(action) == action # "rate"

\* the handlers that call saveAllData once they have changed the ledger:
\* cancel, rate, income, expense and the convert branch
savesAfter(action) == action \in {"cancel", "rate", "income", "expense", "convert"}

\* a handler up to its await of saveAllData: the ledger is changed, then
\* saveAllData is called; a refused intent returns without a save
Handle(userId, aiData) ==
    /\ aiData.action \in {"cancel", "rate"} \/ Len(memory.transactions) < MaxTxns
    /\ LET r == executeAction(aiData, memory, userId, NextTxnId, now)
       IN  /\ memory' = r.memory
           /\ last' = Last(aiData.action, r.result.outcome, NoTxn, "na", FALSE)
           /\ IF r.result.success /\ savesAfter(aiData.action)
              THEN /\ SavesInFlight < MaxSaves
                   /\ saves' = saves (+) SetToBag({SaveCall("handler", r.result.outcome)})
              ELSE saves' = saves
    /\ UNCHANGED <<now, trial, reversalCount, holds, disk>>
    /\ UNCHANGED chatVars

\* autoSaveInterval
AutoSave ==
    /\ SavesInFlight < MaxSaves
    /\ saves' = saves (+) SetToBag({SaveCall("timer", "none")})
    /\ last' = Last("autosave", "none", NoTxn, "na", FALSE)
    /\ UNCHANGED <<memory, now, trial, reversalCount, holds, disk>>
    /\ UNCHANGED chatVars

\* the awaited operation of s has succeeded and the next one is begun; the
\* finished write of the group's file puts its content on the disk and
\* ends the call with true
SaveStep(s) ==
    /\ s \in BagToSet(saves)
    /\ IF s.pc = "group"
       THEN /\ saves' = saves (-) SetToBag({s})
            /\ disk' = [exists |-> TRUE, data |-> s.content]
            /\ last' = Last("saved", reportAfterSave(s.outcome, TRUE), NoTxn, "na", FALSE)
       ELSE /\ saves' = (saves (-) SetToBag({s})) (+) SetToBag({
                   IF s.pc = "dirs" THEN [s EXCEPT !.pc = "global"]
                   ELSE IF s.pc = "global" THEN [s EXCEPT !.pc = "list"]
                   ELSE [s EXCEPT !.pc = "group", !.content = memory]})
            /\ disk' = disk
            /\ last' = Last("write", "none", NoTxn, "na", FALSE)
    /\ UNCHANGED <<memory, now, trial, reversalCount, holds>>
    /\ UNCHANGED chatVars

\* the awaited operation of s has failed: the catch of saveAllData logs
\* the error and returns false; a write of the group's file that fails may
\* leave the file as it was or unreadable (torn)
SaveFail(s, torn) ==
    /\ s \in BagToSet(saves)
    /\ torn => s.pc = "group"
    /\ saves' = saves (-) SetToBag({s})
    /\ disk' = IF torn THEN NoFile ELSE disk
    /\ last' = Last("saveFailed", reportAfterSave(s.outcome, FALSE), NoTxn, "na", FALSE)
    /\ UNCHANGED <<memory, now, trial, reversalCount, holds>>
    /\ UNCHANGED chatVars

\* the process ends and startBot runs again: loadAllData takes the group
\* from its file as JSON.parse delivers it; a group without a readable file
\* is created anew; a process that ends during a write of the group's file
\* may leave it unreadable (torn)
Restart(torn) ==
    /\ torn => \E s \in BagToSet(saves) : s.pc = "group"
    /\ LET file == IF torn THEN NoFile ELSE disk
       IN  /\ disk' = file
           /\ memory' = IF file.exists THEN file.data ELSE createNewGroupData(now)
           /\ last' = Last("load", IF file.exists THEN "loaded" ELSE "created",
                           NoTxn, "na", FALSE)
    /\ saves' = EmptyBag
    /\ UNCHANGED <<now, trial, reversalCount, holds>>
    /\ UNCHANGED chatVars

PersistNext ==
    \/ \E u \in Users, ai \in PersistIntents : Handle(u, ai)
    \/ AutoSave
    \/ \E s \in BagToSet(saves) : SaveStep(s)
    \/ \E s \in BagToSet(saves), torn \in BOOLEAN : SaveFail(s, torn)
    \/ \E torn \in BOOLEAN : Restart(torn)

PersistSpec == Init /\ [][PersistNext]_vars

\* C21: at most one call of saveAllData is writing at any time: the writes
\* of a second call do not begin before the first call has finished.
SavesNeverInterleave == CopiesOf(Writers) <= 1

\* C22: a save that fails leaves the ledger in memory as the intent made
\* it, and the handler that awaited it reports the intent as applied; the
\* content a later save hands to the write of the group's file is the
\* ledger in memory at that step, and the finished write puts it on the
\* disk.
FailedSaveKeepsLedger ==
    [][\A s \in BagToSet(saves) :
          /\ (\E torn \in BOOLEAN : SaveFail(s, torn)) =>
                /\ memory' = memory
                /\ s.by = "handler" => last'.outcome = "applied"
          /\ (SaveStep(s) /\ s.pc = "list") =>
                \E t \in BagToSet(saves') : t.pc = "group" /\ t.content = memory
          /\ (SaveStep(s) /\ s.pc = "group") =>
                disk' = [exists |-> TRUE, data |-> s.content]]_vars

\* the save a handler awaited has failed: the transaction is in the ledger,
\* the handler reports it as applied, and no file was written
FailedSaveKeepsLedgerWitness ==
    /\ last.action = "saveFailed"
    /\ last.outcome = "applied"
    /\ Len(memory.transactions) = 1
    /\ ~disk.exists

\* C23: after a load the stored wallet, daily and monthly amounts and the
\* categories equal the values recomputed from the non-canceled
\* transactions of the loaded log.
LoadedIsReconciled ==
    (last.action = "load" /\ last.outcome = "loaded")
       => /\ \A c \in DOMAIN memory.wallet :
                memory.wallet[c] = SignedSum(memory.transactions, c)
          /\ memory.dailySpent.USD
                = DailySum(memory.transactions, memory.dailySpent.lastReset)
          /\ memory.monthlySpent.USD
                = MonthlySum(memory.transactions, memory.monthlySpent.month, Missing)
          /\ \A c \in Categories :
                CategoryGet(memory.monthlySpent.categories, c)
                   = MonthlySum(memory.transactions, memory.monthlySpent.month, c)

----------------------------------------------------------------------------
(* Saves after mutations; effects of an expense and of a conversion        *)

\* C31: a handler that has applied an income, expense, conversion, cancel
\* or rate update has called saveAllData in the same step; what it reports
\* is returned only when that call has ended.
MutationRequestsSave ==
    [][\A u \in Users, ai \in PersistIntents :
          (Handle(u, ai) /\ executeAction(ai, memory, u, NextTxnId, now).result.success)
             => /\ BagCardinality(saves') = BagCardinality(saves) + 1
                /\ BagIn(SaveCall("handler", "applied"), saves')
                /\ last'.action \notin {"saved", "saveFailed"}]_vars

\* a rate update and a conversion have been applied and the save of the
\* later one has been called
MutationRequestsSaveWitness ==
    /\ last.action = "convert"
    /\ last.outcome = "applied"
    /\ memory.exchangeRate = 16000
    /\ BagIn(SaveCall("handler", "applied"), saves)

\* what an applied expense of amount a in currency c, with the given
\* category and countsToDailyLimit, has changed from pre to post
ExpenseEffects(pre, post, a, c, category, counts) ==
    /\ post.wallet = [pre.wallet EXCEPT ![c] = @ - a]
    /\ post.exchangeRate = pre.exchangeRate
    /\ Len(post.transactions) = Len(pre.transactions) + 1
    /\ SubSeq(post.transactions, 1, Len(pre.transactions)) = pre.transactions
    /\ LET t == post.transactions[Len(post.transactions)]
       IN  /\ t.type = "expense" /\ t.amount = a /\ t.currency = c
           /\ t.category = category /\ t.countsToDailyLimit = counts
    /\ IF c = "USD"
       THEN /\ post.monthlySpent.USD = pre.monthlySpent.USD + a
            /\ post.monthlySpent.month = pre.monthlySpent.month
            /\ \A x \in DOMAIN post.monthlySpent.categories :
                  post.monthlySpent.categories[x]
                     = CategoryGet(pre.monthlySpent.categories, x)
                          + (IF x = category THEN a ELSE 0)
            /\ category \in DOMAIN post.monthlySpent.categories
            /\ post.dailySpent =
                  [pre.dailySpent EXCEPT !.USD = IF counts THEN @ + a ELSE @]
       ELSE /\ post.dailySpent = pre.dailySpent
            /\ post.monthlySpent = pre.monthlySpent

\* C32: a successful expense of a in c lowers Wallet[c] by a and appends one
\* expense transaction with its category and countsToDailyLimit; in USD it
\* adds a to the monthly amount and to the category, and to the daily amount
\* exactly when countsToDailyLimit is true; in IDR the aggregates are
\* unchanged; the other balance and the exchange rate are unchanged.
ExpenseFrame ==
    [][(last'.action = "expense" /\ last'.outcome = "applied")
          => \A u \in Users, ai \in ExpenseIntents :
                Expense(u, ai)
                   => ExpenseEffects(memory, memory', ai.amount.v,
                                     OrDefault(ai.currency, "IDR"),
                                     ai.category, ai.countsToDailyLimit)]_vars

\* a USD expense that does not count to the daily limit has been applied
ExpenseFrameWitness ==
    /\ last.action = "expense"
    /\ last.outcome = "applied"
    /\ LET t == memory.transactions[Len(memory.transactions)]
       IN  /\ t.currency = "USD"
           /\ ~t.countsToDailyLimit
           /\ memory.monthlySpent.USD = t.amount
           /\ memory.dailySpent.USD = 0

\* the target amount of a conversion of a: the supplied target amount, or a
\* times the supplied rate when that is positive, or else a times the
\* stored rate
StatedTargetAmount(ai, pre, a) ==
    IF ai.targetAmount.kind = "num" THEN ai.targetAmount.v
    ELSE IF ai.rate.kind = "num" /\ ai.rate.v > 0 THEN a * ai.rate.v
    ELSE a * pre.exchangeRate

\* C33: a successful conversion debits the source by the amount, credits
\* the target by the target amount (the amount times the supplied positive
\* rate or else the stored rate when none is supplied), stores the supplied
\* rate only when it is positive, appends one convert transaction and
\* leaves the daily and monthly aggregates unchanged; a rejected conversion
\* leaves the exchange rate unchanged.
ConvertFrame ==
    [][last'.action = "convert"
          => \A u \in Users, ai \in ConvertIntents :
                Convert(u, ai)
                   => IF last'.outcome = "applied"
                      THEN LET a == ai.amount.v
                               src == OrDefault(ai.currency, "USD")
                               tgt == OrDefault(ai.targetCurrency, "IDR")
                               ta == StatedTargetAmount(ai, memory, a)
                           IN  /\ memory'.wallet =
                                     [[memory.wallet EXCEPT ![src] = @ - a]
                                         EXCEPT ![tgt] = @ + ta]
                               /\ memory'.exchangeRate =
                                     IF ai.rate.kind = "num" /\ ai.rate.v > 0
                                     THEN ai.rate.v ELSE memory.exchangeRate
                               /\ Len(memory'.transactions)
                                     = Len(memory.transactions) + 1
                               /\ memory'.transactions[Len(memory'.transactions)].type
                                     = "convert"
                               /\ memory'.dailySpent = memory.dailySpent
                               /\ memory'.monthlySpent = memory.monthlySpent
                      ELSE memory'.exchangeRate = memory.exchangeRate]_vars

\* C34: every conversion in the log has credited a strictly positive
\* amount to its target currency.
ConvertCreditsPositive ==
    \A i \in 1..Len(memory.transactions) :
        memory.transactions[i].type = "convert"
           => memory.transactions[i].targetAmount > 0

\* C38: the stored exchange rate is strictly positive.
ExchangeRatePositive == memory.exchangeRate > 0

\* a conversion that carried a zero or negative rate has been applied
\* after a rate update
ExchangeRatePositiveWitness ==
    /\ last.action = "convert"
    /\ last.outcome = "applied"
    /\ memory.exchangeRate = 16000
    /\ memory.transactions[Len(memory.transactions)].targetAmount < 0

----------------------------------------------------------------------------
(* The administrator's /reset beside the intents and the reset timers      *)

\* the runs take the resets that leave the log in place: on a log that is
\* emptied again and again the amounts grow without end
ResetTypes == {"daily", "monthly", "wallet"}

\* resetGroupData: the switch on args[0]
resetGroupData(mem, resetType, time) ==
    IF resetType = "daily" THEN [mem EXCEPT !.dailySpent.USD = 0]
    ELSE IF resetType = "monthly"
    THEN [mem EXCEPT !.monthlySpent.USD = 0,
                     !.monthlySpent.categories = [c \in {} |-> 0]]
    ELSE IF resetType = "wallet"
    THEN [mem EXCEPT !.wallet = [c \in Currencies |-> 0]]
    ELSE IF resetType = "transactions" THEN [mem EXCEPT !.transactions = <<>>]
    ELSE createNewGroupData(time)

\* /reset [type] through handleAdminCommand
AdminReset(userId, resetType) ==
    /\ memory' = IF isUserAdmin(userId)
                 THEN resetGroupData(memory, resetType, now)
                 ELSE memory
    /\ last' = Last("reset", IF isUserAdmin(userId) THEN resetType ELSE "no_access",
                    NoTxn, "na", FALSE)
    /\ trial' = NoTrial
    /\ UNCHANGED persistVars
    /\ UNCHANGED <<now, reversalCount, holds>>
    /\ UNCHANGED chatVars

ResetIntents ==
    {AiData("income", Num(10), "USD", Missing, Undefined, Undefined, Missing, FALSE),
     AiData("expense", Num(10), "USD", Missing, Undefined, Undefined, "food", TRUE)}

ResetNext ==
    \/ \E u \in Users, ai \in ResetIntents :
          IF ai.action = "income" THEN Income(u, ai) ELSE Expense(u, ai)
    \/ \E u \in Users : Cancel(u)
    \/ \E u \in Users, resetType \in ResetTypes : AdminReset(u, resetType)
    \/ Tick
    \/ DailyResetCheck
    \/ MonthlyResetCheck

ResetSpec == Init /\ [][ResetNext]_vars

\* C36: the daily amount, the monthly amount and the amount of every
\* category are never negative.
AggregatesNonNegative ==
    /\ memory.dailySpent.USD >= 0
    /\ memory.monthlySpent.USD >= 0
    /\ \A c \in DOMAIN memory.monthlySpent.categories :
          memory.monthlySpent.categories[c] >= 0

\* an expense of the current day has been canceled after the aggregates
\* were reset
AggregatesNonNegativeWitness ==
    /\ last.action = "cancel"
    /\ last.outcome = "applied"
    /\ \E i \in 1..Len(memory.transactions) :
          /\ memory.transactions[i].id = last.txn
          /\ memory.transactions[i].type = "expense"
          /\ memory.transactions[i].countsToDailyLimit
          /\ DayOf(memory.transactions[i].time) = DayOf(now)
    /\ memory.dailySpent.USD = 0
    /\ memory.monthlySpent.USD = 0

----------------------------------------------------------------------------
(* The daily reset check on groups with either setting of autoResetDaily   *)

\* a run of dailyResetInterval on the group, its config.autoResetDaily
\* being autoReset
DailyResetRun(autoReset) ==
    /\ memory' = dailyReset(memory, autoReset, now)
    /\ last' = Last("dailyReset",
                    IF dailyReset(memory, autoReset, now) = memory
                    THEN "unchanged" ELSE "reset",
                    NoTxn, "na", FALSE)
    /\ trial' = NoTrial
    /\ UNCHANGED persistVars
    /\ UNCHANGED <<now, reversalCount, holds>>
    /\ UNCHANGED chatVars

TimerNext ==
    \/ \E u \in Users, ai \in ResetIntents :
          IF ai.action = "income" THEN Income(u, ai) ELSE Expense(u, ai)
    \/ Tick
    \/ \E autoReset \in BOOLEAN : DailyResetRun(autoReset)
    \/ MonthlyResetCheck

TimerSpec == Init /\ [][TimerNext]_vars

\* the daily amount is 0 and the day marker is the current day; nothing
\* else has changed
DailyResetEffects ==
    /\ memory'.dailySpent.USD = 0
    /\ memory'.dailySpent.lastReset = DayOf(now)
    /\ memory' = [memory EXCEPT !.dailySpent = memory'.dailySpent]

\* C37 as stated: a run of the daily reset check on a group whose day
\* marker is not the current day resets the daily amount and the marker
\* whatever the group's configuration, and changes nothing else; a run on
\* a group whose marker is current changes nothing.
DailyResetFrameAsStated ==
    [][\A autoReset \in BOOLEAN :
          DailyResetRun(autoReset)
             => IF memory.dailySpent.lastReset # DayOf(now)
                THEN DailyResetEffects
                ELSE memory' = memory]_vars

\* C37: a run of the daily reset check on a group whose autoResetDaily is
\* on and whose day marker is not the current day sets the daily amount to
\* 0 and the marker to the current day and leaves the wallet, the log, the
\* monthly aggregate and the exchange rate unchanged; a run on a group whose
\* autoResetDaily is off, or whose marker is current, changes nothing.
DailyResetFrame ==
    [][\A autoReset \in BOOLEAN :
          DailyResetRun(autoReset)
             => IF autoReset /\ memory.dailySpent.lastReset # DayOf(now)
                THEN DailyResetEffects
                ELSE memory' = memory]_vars

\* the check has reset the daily amount of a day on which an expense was
\* counted
DailyResetFrameWitness ==
    /\ last.action = "dailyReset"
    /\ last.outcome = "reset"
    /\ memory.dailySpent.USD = 0
    /\ memory.dailySpent.lastReset = DayOf(now)
    /\ memory.monthlySpent.USD > 0
    /\ \E i \in 1..Len(memory.transactions) :
          /\ memory.transactions[i].type = "expense"
          /\ memory.transactions[i].countsToDailyLimit
          /\ DayOf(memory.transactions[i].time) # DayOf(now)

----------------------------------------------------------------------------
(* The confirmation prompt: sent first, stored when sendMessage returns    *)

PromptIntents == {Flagged(ChatIncome, TRUE, "none"), Flagged(ChatExpense, FALSE, "danger")}

\* the message handler of a flagged intent up to await bot.sendMessage:
\* the confirmId is made and the prompt with its buttons is sent
Prompt(userId, aiData) ==
    /\ needsConfirmation(aiData)
    /\ Len(executions) < MaxConfirms
    /\ executions' = Append(executions, 0)
    /\ prompts' =
          [k \in DOMAIN prompts \cup {Len(executions) + 1} |->
              IF k \in DOMAIN prompts THEN prompts[k]
              ELSE [chatId |-> HomeChat, userId |-> userId, aiData |-> aiData]]
    /\ last' = Last("prompt", "sent", NoTxn, "na", FALSE)
    /\ trial' = NoTrial
    /\ UNCHANGED <<persistVars, enabled>>
    /\ UNCHANGED <<memory, now, reversalCount, holds, pendingConfirmations,
                   callbacks, otherMemory>>

\* the message handler resumes from sendMessage and stores the pending
\* confirmation
Store(id) ==
    /\ id \in DOMAIN prompts
    /\ pendingConfirmations' =
          [k \in DOMAIN pendingConfirmations \cup {id} |->
              IF k \in DOMAIN pendingConfirmations THEN pendingConfirmations[k]
              ELSE PendingConfirmation(prompts[id].chatId, prompts[id].userId,
                                       prompts[id].aiData, now, memory)]
    /\ prompts' = [k \in DOMAIN prompts \ {id} |-> prompts[k]]
    /\ last' = Last("register", "pending", NoTxn, "na", FALSE)
    /\ trial' = NoTrial
    /\ UNCHANGED <<persistVars, enabled>>
    /\ UNCHANGED <<memory, now, reversalCount, holds, executions, callbacks,
                   otherMemory>>

PromptNext ==
    \/ \E u \in Users, ai \in DirectIntents("income") : Income(u, ai)
    \/ \E u \in Users, ai \in PromptIntents : Prompt(u, ai)
    \/ \E id \in DOMAIN prompts : Store(id)
    \/ \E u \in Users, c \in Chats, id \in 1..Len(executions),
          choice \in {"yes", "no"} : Click(u, c, id, choice)
    \/ \E cb \in BagToSet(callbacks) : Redeem(cb)
    \/ \E id \in DOMAIN pendingConfirmations : ExpiryTimer(id)
    \/ Cleanup
    \/ Tick

PromptSpec == Init /\ [][PromptNext]_vars

\* C35: the handler of a confirm click of the requester on a prompt that
\* has been sent, in the chat of the prompt, never finds the pending
\* confirmation missing because it has not been stored yet.
TokenStoredBeforePrompt ==
    [][\A cb \in BagToSet(callbacks) :
          (/\ Redeem(cb)
           /\ cb.id \in DOMAIN prompts
           /\ cb.userId = prompts[cb.id].userId
           /\ cb.chatId = prompts[cb.id].chatId
           /\ cb.choice = "yes")
             => last'.outcome # "expired"]_vars

----------------------------------------------------------------------------
(* A group that is disabled and enabled by its administrators              *)

\* isBotEnabledInGroup: groupData.enabled !== false
isBotEnabledInGroup(flag) == flag

\* /disable and /enable through handleAdminCommand
SetEnabled(userId, flag) ==
    /\ isUserAdmin(userId)
    /\ enabled # flag
    /\ enabled' = flag
    /\ last' = Last(IF flag THEN "enable" ELSE "disable", "done", NoTxn, "na", FALSE)
    /\ trial' = NoTrial
    /\ UNCHANGED persistVars
    /\ UNCHANGED <<memory, now, reversalCount, holds, pendingConfirmations,
                   executions, callbacks, otherMemory, prompts>>

\* the message handler returns at once while the group is disabled; the
\* callback_query handler and the timers do not look at the flag
EnableNext ==
    \/ /\ isBotEnabledInGroup(enabled)
       /\ \E u \in Users, ai \in DirectIntents("income") : Income(u, ai)
    \/ /\ isBotEnabledInGroup(enabled)
       /\ \E u \in Users, ai \in DirectIntents("expense") : Expense(u, ai)
    \/ /\ isBotEnabledInGroup(enabled)
       /\ \E u \in Users, ai \in ChatIntents : Register(u, ai)
    \/ \E u \in Users, id \in 1..Len(executions), choice \in {"yes", "no"} :
          Click(u, HomeChat, id, choice)
    \/ \E cb \in BagToSet(callbacks) : Redeem(cb)
    \/ \E id \in DOMAIN pendingConfirmations : ExpiryTimer(id)
    \/ \E u \in Users, flag \in BOOLEAN : SetEnabled(u, flag)
    \/ Tick

EnableSpec == Init /\ [][EnableNext]_vars

\* C39: while the group is disabled no finance intent changes its ledger,
\* the intent of a confirmation registered before the group was disabled
\* included.
DisabledGroupIsFrozen ==
    [][(~enabled /\ last'.action \in
            {"income", "expense", "convert", "cancel", "rate", "callback"})
          => memory' = memory]_vars

----------------------------------------------------------------------------
(* The pending table under the scheduling of the timers                    *)

\* A confirmation is registered while the clock of the model still has an
\* instant beyond its deadline.  Clicks come from any user of the chat, the
\* requester or not, or do not come at all.
ExpiryNext ==
    \/ /\ now < MaxTime
       /\ \E u \in Users, ai \in ChatIntents : Register(u, ai)
    \/ \E u \in Users, id \in 1..Len(executions), choice \in {"yes", "no"} :
          Click(u, HomeChat, id, choice)
    \/ \E cb \in BagToSet(callbacks) : Redeem(cb)
    \/ \E id \in DOMAIN pendingConfirmations : ExpiryTimer(id)
    \/ Cleanup
    \/ Tick

\* Time passes, and a setTimeout callback that is due is run by the event
\* loop; nothing is assumed about the users.
ExpirySpec ==
    /\ Init
    /\ [][ExpiryNext]_vars
    /\ WF_vars(Tick)
    /\ \A id \in 1..MaxConfirms : WF_vars(ExpiryTimer(id))

\* C40: every registered pending confirmation is eventually removed from
\* the pending table, whether its prompt is answered by the requester, by
\* other users only, or by nobody.
PendingEventuallyRemoved ==
    \A id \in 1..MaxConfirms :
        (id \in DOMAIN pendingConfirmations)
            ~> (id \notin DOMAIN pendingConfirmations)

\* a token removed by its timer, its intent never executed
PendingEventuallyRemovedWitness ==
    /\ last.action = "expiry"
    /\ last.outcome = "deleted"
    /\ Len(executions) > 0
    /\ \A id \in 1..Len(executions) :
          executions[id] = 0 /\ id \notin DOMAIN pendingConfirmations

====
